---- MODULE Spec2Model ----
(***************************************************************************)
(* Open-addressing hash table (src/ht.h) and its probing strategies, and   *)
(* the string hash MyStringHash (src/hash.h).                              *)
(*                                                                         *)
(* The table is HashTable<int,int,Prober> with an identity primary hash    *)
(* (std::hash<int>) and, for DoubleHashProber, an identity secondary hash. *)
(* table_ is the std::vector<HashItem*>: the function below maps exactly   *)
(* the indices that hold a non-null pointer to the HashItem pointed to,    *)
(* and tableSize is table_.size().                                         *)
(***************************************************************************)
EXTENDS Integers, Sequences, FiniteSets, TLC

VARIABLES
    table_,       \* index -> HashItem, for the non-null entries of the vector
    tableSize,    \* table_.size()
    mIndex_,      \* index into CAPACITIES (0-based, as in the source)
    prober_,      \* the table's mutable prober: start_, m_, numProbes_, dhstep_
    proberKind,   \* template argument Prober: "linear" or "double"
    resizeAlpha,  \* constructor argument resizeAlpha, in hundredths
    absMap,       \* abstract key -> value map run side by side with the table
    lastOp,       \* the call that produced this state, with its result
    nUpdates,     \* number of insert, remove and resize calls made since Init
    probed,       \* values returned by next() since the last Prober::init
    pinit         \* arguments of the last init of the stand-alone prober; its
                  \* key is the string to hash when MyStringHash is used alone

vars == <<table_, tableSize, mIndex_, prober_, proberKind, resizeAlpha,
          absMap, lastOp, nUpdates, probed, pinit>>

\* ------------------------------------------------------------------ bounds
NumKeys == 5          \* number of distinct keys offered to the table
NumValues == 2        \* number of distinct values offered to the table
MaxIndex == 1         \* the table model stops growing at CAPACITIES[MaxIndex]
MaxUpdates == 6       \* insert, remove and resize calls made on one table
MaxReadDepth == 3     \* find, at and operator[] are called after at most this many updates
MaxProbeIdx == 1      \* next() is stepped for capacities up to CAPACITIES[MaxProbeIdx]
MaxSmallM == 8        \* capacities 1 .. MaxSmallM are offered to init beside the ladder
MaxH2 == 11           \* secondary-hash values up to MaxH2 below the modulus
MaxStrLen == 31       \* longest std::string given to MyStringHash
MaxCollideIndex == 2  \* the table of colliding keys stops growing at CAPACITIES[MaxCollideIndex]

\* --------------------------------------------------------------- constants
CAPACITIES ==
    <<11, 23, 47, 97, 197, 397, 797, 1597, 3203, 6421, 12853, 25717, 51437,
      102877, 205759, 411527, 823117, 1646237, 3292489, 6584983, 13169977,
      26339969, 52679969, 105359969, 210719881, 421439783, 842879579,
      1685759167>>

NumCapacities == Len(CAPACITIES)

DOUBLE_HASH_MOD_VALUES ==
    <<7, 19, 43, 89, 193, 389, 787, 1583, 3191, 6397, 12841, 25703, 51431,
      102871, 205721, 411503, 823051, 1646221, 3292463, 6584957, 13169963,
      26339921, 52679927, 105359939, 210719881, 421439749, 842879563,
      1685759113>>

DOUBLE_HASH_MOD_SIZE == Len(DOUBLE_HASH_MOD_VALUES)

npos == -1            \* (HASH_INDEX_T)-1: no index of any table

\* CAPACITIES[i] with the source's 0-based index
Cap(i) == CAPACITIES[i + 1]

\* Values an indeterminate (never written, or freed) word may hold
Garbage == {0, 5, 6}

\* the keys offered: 1 and 12 share the home index 1 of an 11-slot table,
\* the others have homes of their own (3, 5, 7, ...)
Keys == {1, 12} \cup {2 * i + 1 : i \in 1 .. NumKeys - 2}

Values == 1 .. NumValues

\* double resizeAlpha = 0.4, in hundredths
DefaultAlpha == 40

\* constructor arguments resizeAlpha offered, in hundredths: 0.2 and the
\* default
Alphas == {20, DefaultAlpha}

\* ------------------------------------------------------------ hash functors
hash_(k) == k

h2_(k) == k

\* ------------------------------------------------- MyStringHash (src/hash.h)
\* A std::string is the sequence of its characters' codes; an unsigned long
\* long is the sequence of its eight bytes, least significant first, so that
\* sums and products are taken modulo 2^64 as the machine takes them.
Pow256 == <<1, 256, 65536, 16777216>>

\* the unsigned long long holding n, for 0 <= n < 2^31
U64(n) == [i \in 1 .. 8 |-> IF i <= 4 THEN (n \div Pow256[i]) % 256 ELSE 0]

\* bytes i .. 8 of the number whose byte j is cols[j] plus the carry
RECURSIVE Carry64(_, _, _)
Carry64(cols, i, carry) ==
    IF i > 8 THEN <<>>
    ELSE <<(cols[i] + carry) % 256>>
         \o Carry64(cols, i + 1, (cols[i] + carry) \div 256)

\* a + b on unsigned long long
Add64(a, b) == Carry64([i \in 1 .. 8 |-> a[i] + b[i]], 1, 0)

\* sum of a[i] * b[k + 1 - i] for i = 1 .. n
RECURSIVE Column64(_, _, _, _)
Column64(a, b, k, n) ==
    IF n = 0 THEN 0 ELSE a[n] * b[k + 1 - n] + Column64(a, b, k, n - 1)

\* a * b on unsigned long long
Mul64(a, b) == Carry64([k \in 1 .. 8 |-> Column64(a, b, k, k)], 1, 0)

\* HASH_INDEX_T rValues[5], the debug coefficients
rValues ==
    <<U64(983132572), U64(1468777056), U64(552714139), U64(984953261),
      U64(261934300)>>

\* isdigit and tolower of <cctype> in the "C" locale
isdigit(c) == c \in 48 .. 57

tolower(c) == IF c \in 65 .. 90 THEN c + 32 ELSE c

\* letterDigitToNumber(letter), for a letter or a decimal digit
letterDigitToNumber(letter) ==
    IF isdigit(letter) THEN U64(26 + (letter - 48))
    ELSE U64(tolower(letter) - 97)

\* the for loop of computeSubstringValue from index i down to start
RECURSIVE SubstringLoop(_, _, _, _, _)
SubstringLoop(k, start, i, value, base) ==
    IF i < start THEN value
    ELSE SubstringLoop(k, start, i - 1,
                       IF i >= 0 /\ i < Len(k)
                       THEN Add64(value, Mul64(letterDigitToNumber(k[i + 1]), base))
                       ELSE value,
                       Mul64(base, U64(36)))

\* computeSubstringValue(k, start, end)
computeSubstringValue(k, start, end) ==
    SubstringLoop(k, start, end - 1, U64(0), U64(1))

\* the while loop of operator(): w[index] filled from pos downward
RECURSIVE ChunkLoop(_, _, _, _)
ChunkLoop(k, pos, index, w) ==
    IF index < 0 THEN w
    ELSE ChunkLoop(k, pos - 6, index - 1,
                   [w EXCEPT ![index + 1] = computeSubstringValue(k, pos - 6, pos)])

\* hash += rValues[i] * w[i] for i = 0 .. n - 1
RECURSIVE WeightedSum(_, _)
WeightedSum(w, n) ==
    IF n = 0 THEN U64(0)
    ELSE Add64(WeightedSum(w, n - 1), Mul64(rValues[n], w[n]))

\* MyStringHash::operator()(k)
MyStringHash(k) ==
    WeightedSum(ChunkLoop(k, Len(k) % 6, 4, [i \in 1 .. 5 |-> U64(0)]), 5)

\* ------------------------------------------------------------------ probers
\* Prober::init
ProberBaseInit(p, start, m) ==
    [p EXCEPT !.start_ = start, !.m_ = m, !.numProbes_ = 0]

\* DoubleHashProber::findModulusToUseFromTableSize, its for loop from i: the
\* ladder position the return statement reads (0-based; -1 is the position
\* before the array)
RECURSIVE ModulusPos(_, _)
ModulusPos(currTableSize, i) ==
    IF i >= DOUBLE_HASH_MOD_SIZE THEN DOUBLE_HASH_MOD_SIZE - 1
    ELSE IF DOUBLE_HASH_MOD_VALUES[i + 1] >= currTableSize THEN i - 1
    ELSE ModulusPos(currTableSize, i + 1)

\* the values findModulusToUseFromTableSize can return: the ladder entry
\* read, or an indeterminate word when the read is before the array
findModulusToUseFromTableSize(currTableSize) ==
    LET pos == ModulusPos(currTableSize, 0)
    IN  IF pos < 0 THEN Garbage ELSE {DOUBLE_HASH_MOD_VALUES[pos + 1]}

\* dhstep_ = modulus - h2_(key) % modulus
DhStep(modulus, key) == modulus - (h2_(key) % modulus)

\* DoubleHashProber::init, for one value of modulus
DoubleHashInit(p, start, m, key, modulus) ==
    [ProberBaseInit(p, start, m) EXCEPT !.dhstep_ = DhStep(modulus, key)]

\* the prober states init(start, m, key) can produce
ProberInit(kind, p, start, m, key) ==
    IF kind = "linear" THEN {ProberBaseInit(p, start, m)}
    ELSE {DoubleHashInit(p, start, m, key, modulus) :
            modulus \in findModulusToUseFromTableSize(m) \ {0}}

\* C8 mutant: the exhaustion test lets one probe too many through
LinearNextLocLate(p) ==
    IF p.numProbes_ > p.m_ THEN npos
    ELSE (p.start_ + p.numProbes_) % p.m_

\* LinearProber::next: the index returned
LinearNextLoc(p) ==
    IF p.numProbes_ >= p.m_ THEN npos
    ELSE (p.start_ + p.numProbes_) % p.m_

\* DoubleHashProber::next: the index returned
DoubleHashNextLoc(p) ==
    IF p.numProbes_ >= p.m_ THEN npos
    ELSE (p.start_ + p.numProbes_ * p.dhstep_) % p.m_

NextLoc(kind, p) ==
    IF kind = "linear" THEN LinearNextLoc(p) ELSE DoubleHashNextLoc(p)

\* next(): the prober after the call (numProbes_++ unless exhausted)
NextProber(p) ==
    IF p.numProbes_ >= p.m_ THEN p
    ELSE [p EXCEPT !.numProbes_ = p.numProbes_ + 1]

\* ---------------------------------------------------------------- the table
IsNull(t, loc) == loc \notin DOMAIN t

\* HashItem(p): item = p, deleted = false
HashItem(k, v) == [first |-> k, second |-> v, deleted |-> FALSE]

\* table[loc] = item
Put(t, loc, item) ==
    [i \in DOMAIN t \cup {loc} |-> IF i = loc THEN item ELSE t[i]]

\* size(): the entries with item && !item->deleted
size(t) == Cardinality({i \in DOMAIN t : ~t[i].deleted})

\* empty()
empty(t) == \A i \in DOMAIN t : t[i].deleted

\* C4 mutant: the load test compares with 0.5
LoadTooHighHalf(t, idx) == 2 * size(t) >= Cap(idx)

\* size() / static_cast<double>(CAPACITIES[mIndex_]) >= 0.4, which for the
\* ladder's capacities (none a multiple of 5) is 5 * size >= 2 * capacity
LoadTooHigh(t, idx) == (5 * size(t)) \div 2 >= Cap(idx)

\* probe's test of table_[loc]: null, deleted or an equal key.  An item
\* already deleted by resize is read after its release and may read as
\* anything.
ProbeHits(t, freed, loc, key) ==
    IF IsNull(t, loc) THEN {TRUE}
    ELSE IF loc \in freed THEN {TRUE, FALSE}
    ELSE {t[loc].deleted \/ t[loc].first = key}

\* the while loop of probe, from prober state p: the outcomes
\* [loc, prober, uaf], uaf telling whether a released item was read
RECURSIVE ProbeLoop(_, _, _, _, _, _)
ProbeLoop(kind, t, freed, p, key, uaf) ==
    LET loc == NextLoc(kind, p)
        q == NextProber(p)
        u == uaf \/ (loc \in freed /\ ~IsNull(t, loc))
    IN  IF loc = npos THEN {[loc |-> npos, prober |-> q, uaf |-> uaf]}
        ELSE UNION {IF hit THEN {[loc |-> loc, prober |-> q, uaf |-> u]}
                    ELSE ProbeLoop(kind, t, freed, q, key, u) :
                        hit \in ProbeHits(t, freed, loc, key)}

\* probe(key) on vector t with capacity CAPACITIES[idx]
probe(kind, t, freed, idx, p, key) ==
    UNION {ProbeLoop(kind, t, freed, q, key, FALSE) :
            q \in ProberInit(kind, p, hash_(key) % Cap(idx), Cap(idx), key)}

\* probe(key) outside resize: nothing is released, one outcome
probe1(kind, t, idx, p, key) ==
    CHOOSE r \in probe(kind, t, {}, idx, p, key) : TRUE

Min(S) == CHOOSE x \in S : \A y \in S : x <= y

\* the for loop of resize over the entries todo of table_ (ascending; a null
\* entry does nothing): the outcomes [newTable, freed, prober, uaf, oob]
RECURSIVE ResizeLoop(_, _, _, _, _)
ResizeLoop(kind, t, idx, todo, acc) ==
    IF todo = {} THEN {acc}
    ELSE LET i == Min(todo) IN
         IF ~t[i].deleted
         THEN UNION {ResizeLoop(kind, t, idx, todo \ {i},
                        [acc EXCEPT
                           !.newTable = IF r.loc = npos THEN @
                                        ELSE Put(@, r.loc, t[i]),
                           !.prober = r.prober,
                           !.uaf = @ \/ r.uaf,
                           !.oob = @ \/ r.loc = npos]) :
                     r \in probe(kind, t, acc.freed, idx, acc.prober, t[i].first)}
         ELSE ResizeLoop(kind, t, idx, todo \ {i},
                         [acc EXCEPT !.freed = @ \cup {i}])

\* C7 mutant: resize skips a ladder entry
newIdxSkip(idx) == idx + 2

\* size_t newIdx = mIndex_ + 1
newIdx(idx) == idx + 1

\* newIdx >= sizeof(CAPACITIES) / sizeof(HASH_INDEX_T): resize throws
LadderExhausted(idx) == newIdx(idx) >= NumCapacities

\* resize() past the capacity check: the outcomes of the loop, newTable
\* having newSize entries; table_ = std::move(newTable), mIndex_ = newIdx
resize(kind, t, idx, p) ==
    ResizeLoop(kind, t, idx, DOMAIN t,
               [newTable |-> <<>>, newSize |-> Cap(newIdx(idx)),
                newIdx |-> newIdx(idx), freed |-> {}, prober |-> p,
                uaf |-> FALSE, oob |-> FALSE])

\* find(key): nullptr, or a pointer to the pair stored
find(kind, t, idx, p, key) ==
    LET r == probe1(kind, t, idx, p, key)
    IN  IF r.loc = npos \/ IsNull(t, r.loc)
        THEN [null |-> TRUE, first |-> key, second |-> 0]
        ELSE IF t[r.loc].deleted
        THEN [null |-> TRUE, first |-> key, second |-> 0]
        ELSE [null |-> FALSE, first |-> t[r.loc].first,
              second |-> t[r.loc].second]

\* --------------------------------------------------------------- the calls
\* what a call returned: kind is "void", "null", "pair", "value",
\* "logic_error" or "out_of_range"
Ret(kind, a, b) == [kind |-> kind, first |-> a, second |-> b]

\* a call and what it did: resized, uaf (a released item was read) and oob
\* (an index outside the vector was written) describe its resize; psize and
\* pcap are size() and the capacity insert found when it placed its entry
Call(op, key, val, ret, resized, uaf, oob) ==
    [op |-> op, key |-> key, val |-> val, ret |-> ret,
     resized |-> resized, uaf |-> uaf, oob |-> oob, psize |-> 0, pcap |-> 0]

\* insert's placement at index loc of vector t
Place(t, loc, k, v) ==
    IF IsNull(t, loc) THEN Put(t, loc, HashItem(k, v))
    ELSE [t EXCEPT ![loc].second = v, ![loc].deleted = FALSE]

\* the abstract map after insert(k, v)
AbsPut(a, k, v) == [j \in DOMAIN a \cup {k} |-> IF j = k THEN v ELSE a[j]]

\* the abstract map after remove(k)
AbsDel(a, k) == [j \in DOMAIN a \ {k} |-> a[j]]

\* insert(p), second part: probe, then throw or place
InsertPlace(k, v, t, tsize, idx, p, resized, uaf, oob) ==
    LET r == probe1(proberKind, t, idx, p, k)
    IN  /\ prober_' = r.prober
        /\ mIndex_' = idx
        /\ tableSize' = tsize
        /\ IF r.loc = npos
           THEN /\ table_' = t
                /\ absMap' = absMap
                /\ lastOp' = Call("insert", k, v, Ret("logic_error", 0, 0),
                                  resized, uaf, oob)
           ELSE /\ table_' = Place(t, r.loc, k, v)
                /\ absMap' = AbsPut(absMap, k, v)
                /\ lastOp' = [Call("insert", k, v, Ret("void", 0, 0),
                                   resized, uaf, oob)
                              EXCEPT !.psize = size(t), !.pcap = tsize]

\* insert(p), on a table that grows up to CAPACITIES[maxIdx]
InsertUpTo(k, v, maxIdx) ==
    /\ nUpdates < MaxUpdates
    /\ nUpdates' = nUpdates + 1
    /\ IF LoadTooHigh(table_, mIndex_)
       THEN IF LadderExhausted(mIndex_)
            THEN /\ lastOp' = Call("insert", k, v, Ret("logic_error", 0, 0),
                                   FALSE, FALSE, FALSE)
                 /\ UNCHANGED <<table_, tableSize, mIndex_, prober_, absMap>>
            ELSE /\ mIndex_ < maxIdx
                 /\ \E o \in resize(proberKind, table_, mIndex_, prober_) :
                        InsertPlace(k, v, o.newTable, o.newSize, o.newIdx,
                                    o.prober, TRUE, o.uaf, o.oob)
       ELSE InsertPlace(k, v, table_, tableSize, mIndex_, prober_,
                        FALSE, FALSE, FALSE)
    /\ UNCHANGED <<proberKind, resizeAlpha, probed, pinit>>

\* insert(p)
Insert(k, v) == InsertUpTo(k, v, MaxIndex)

\* remove(key)
Remove(k) ==
    LET r == probe1(proberKind, table_, mIndex_, prober_, k)
    IN  /\ nUpdates < MaxUpdates
        /\ nUpdates' = nUpdates + 1
        /\ prober_' = r.prober
        /\ table_' = IF r.loc # npos /\ ~IsNull(table_, r.loc)
                     THEN [table_ EXCEPT ![r.loc].deleted = TRUE]
                     ELSE table_
        /\ absMap' = AbsDel(absMap, k)
        /\ lastOp' = Call("remove", k, 0, Ret("void", 0, 0), FALSE, FALSE, FALSE)
        /\ UNCHANGED <<tableSize, mIndex_, proberKind, resizeAlpha, probed, pinit>>

\* find(key), called by the user
Find(k) ==
    LET r == probe1(proberKind, table_, mIndex_, prober_, k)
        f == find(proberKind, table_, mIndex_, prober_, k)
    IN  /\ nUpdates <= MaxReadDepth
        /\ prober_' = r.prober
        /\ lastOp' = Call("find", k, 0,
                          Ret(IF f.null THEN "null" ELSE "pair", f.first, f.second),
                          FALSE, FALSE, FALSE)
        /\ UNCHANGED <<table_, tableSize, mIndex_, proberKind, resizeAlpha,
                       absMap, nUpdates, probed, pinit>>

\* C10 mutant: at does not test find's result for null
atUnchecked(kind, t, idx, p, key) ==
    Ret("value", 0, find(kind, t, idx, p, key).second)

\* at(key): what it returns or throws
at(kind, t, idx, p, key) ==
    LET item == find(kind, t, idx, p, key)
    IN  IF item.null THEN Ret("out_of_range", 0, 0)
        ELSE Ret("value", 0, item.second)

\* at(key), called by the user
At(k) ==
    LET r == probe1(proberKind, table_, mIndex_, prober_, k)
    IN  /\ nUpdates <= MaxReadDepth
        /\ prober_' = r.prober
        /\ lastOp' = Call("at", k, 0, at(proberKind, table_, mIndex_, prober_, k),
                          FALSE, FALSE, FALSE)
        /\ UNCHANGED <<table_, tableSize, mIndex_, proberKind, resizeAlpha,
                       absMap, nUpdates, probed, pinit>>

\* operator[](key): return at(key)
Index(k) ==
    LET r == probe1(proberKind, table_, mIndex_, prober_, k)
    IN  /\ nUpdates <= MaxReadDepth
        /\ prober_' = r.prober
        /\ lastOp' = Call("index", k, 0, at(proberKind, table_, mIndex_, prober_, k),
                          FALSE, FALSE, FALSE)
        /\ UNCHANGED <<table_, tableSize, mIndex_, proberKind, resizeAlpha,
                       absMap, nUpdates, probed, pinit>>

\* C11 mutant: resize releases the tombstoned items before its capacity check
ResizeReleasesFirst ==
    /\ nUpdates < MaxUpdates
    /\ nUpdates' = nUpdates + 1
    /\ LadderExhausted(mIndex_)
    /\ table_' = [i \in {j \in DOMAIN table_ : ~table_[j].deleted} |-> table_[i]]
    /\ lastOp' = Call("resize", 0, 0, Ret("logic_error", 0, 0),
                      FALSE, FALSE, FALSE)
    /\ UNCHANGED <<tableSize, mIndex_, prober_, proberKind, resizeAlpha,
                   absMap, probed, pinit>>

\* resize(), called by the user, on a table that grows up to
\* CAPACITIES[maxIdx]
ResizeUpTo(maxIdx) ==
    /\ nUpdates < MaxUpdates
    /\ nUpdates' = nUpdates + 1
    /\ IF LadderExhausted(mIndex_)
       THEN /\ lastOp' = Call("resize", 0, 0, Ret("logic_error", 0, 0),
                              FALSE, FALSE, FALSE)
            /\ UNCHANGED <<table_, tableSize, mIndex_, prober_>>
       ELSE /\ mIndex_ < maxIdx
            /\ \E o \in resize(proberKind, table_, mIndex_, prober_) :
                   /\ table_' = o.newTable
                   /\ tableSize' = o.newSize
                   /\ mIndex_' = o.newIdx
                   /\ prober_' = o.prober
                   /\ lastOp' = Call("resize", 0, 0, Ret("void", 0, 0),
                                     TRUE, o.uaf, o.oob)
    /\ UNCHANGED <<proberKind, resizeAlpha, absMap, probed, pinit>>

\* resize(), called by the user
Resize == ResizeUpTo(MaxIndex)

\* a prober as the table's constructor copies it: LinearProber() is
\* value-initialised to zeros; DoubleHashProber's constructor leaves
\* start_, m_, numProbes_ and dhstep_ indeterminate
NewProber(kind, g) ==
    IF kind = "linear"
    THEN [start_ |-> 0, m_ |-> 0, numProbes_ |-> 0, dhstep_ |-> 0]
    ELSE [start_ |-> g, m_ |-> g, numProbes_ |-> g, dhstep_ |-> g]

\* HashTable(resizeAlpha), resizeAlpha among alphas: mIndex_ = 0,
\* CAPACITIES[0] null entries
Construct(alphas) ==
    /\ proberKind \in {"linear", "double"}
    /\ resizeAlpha \in alphas
    /\ \E g \in Garbage : prober_ = NewProber(proberKind, g)
    /\ mIndex_ = 0
    /\ tableSize = Cap(0)
    /\ table_ = <<>>
    /\ absMap = <<>>
    /\ lastOp = Call("ctor", 0, 0, Ret("void", 0, 0), FALSE, FALSE, FALSE)
    /\ nUpdates = 0
    /\ probed = <<>>
    /\ pinit = [start |-> 0, m |-> 0, key |-> 0]

Next ==
    \/ \E k \in Keys, v \in Values : Insert(k, v)
    \/ \E k \in Keys : Remove(k)
    \/ \E k \in Keys : Find(k)
    \/ \E k \in Keys : At(k)
    \/ \E k \in Keys : Index(k)
    \/ Resize

\* HashTable(): a table built with the default threshold
Init == Construct({DefaultAlpha})

Spec == Init /\ [][Next]_vars

\* HashTable(0.2): a table built with a threshold of its own
InitThreshold == Construct(Alphas \ {DefaultAlpha})

SpecThreshold == InitThreshold /\ [][Next]_vars

\* keys that share home indices: 1 and 12 that of an 11-slot table, 12 and 35
\* that of a 23-slot table
CollideKeys == {1, 12, 35}

\* the calls made with colliding keys, on a table that resizes twice
NextCollide ==
    \/ \E k \in CollideKeys, v \in Values : InsertUpTo(k, v, MaxCollideIndex)
    \/ \E k \in CollideKeys : Remove(k)
    \/ \E k \in CollideKeys : Find(k)
    \/ \E k \in CollideKeys : At(k)
    \/ \E k \in CollideKeys : Index(k)
    \/ ResizeUpTo(MaxCollideIndex)

SpecCollide == Init /\ [][NextCollide]_vars

\* HashTable() followed by NumCapacities - 1 calls of resize(): an empty table
\* at the last entry of CAPACITIES, its prober never initialised; calls are
\* counted from here
InitLadderEnd ==
    /\ proberKind \in {"linear", "double"}
    /\ resizeAlpha = DefaultAlpha
    /\ \E g \in Garbage : prober_ = NewProber(proberKind, g)
    /\ mIndex_ = NumCapacities - 1
    /\ tableSize = Cap(NumCapacities - 1)
    /\ table_ = <<>>
    /\ absMap = <<>>
    /\ lastOp = Call("resize", 0, 0, Ret("void", 0, 0), TRUE, FALSE, FALSE)
    /\ nUpdates = 0
    /\ probed = <<>>
    /\ pinit = [start |-> 0, m |-> 0, key |-> 0]

SpecLadderEnd == InitLadderEnd /\ [][Next]_vars

\* ------------------------------------------------- a prober used on its own
\* the capacities offered to init: every ladder entry, and 1 .. MaxSmallM
ProbeCaps == {Cap(i) : i \in 0 .. NumCapacities - 1} \cup (1 .. MaxSmallM)

\* next() is stepped to exhaustion on these
Steppable(m) == m <= Cap(MaxProbeIdx)

\* the start indices offered with capacity m
ProbeStarts(m) == IF Steppable(m) THEN 0 .. m - 1 ELSE {m - 1}

\* the keys offered with capacity m: secondary hashes up to MaxH2 below a
\* modulus init can select, which give the steps 1 .. MaxH2 and the modulus
ProbeKeys(kind, m) ==
    IF kind = "linear" THEN {0}
    ELSE {mod - d : mod \in findModulusToUseFromTableSize(m), d \in 0 .. MaxH2}

\* init is called on a new prober, after one next() and after the second
\* next() past exhaustion
ReInitPoint == lastOp.op = "ctor" \/ Len(probed) \in {1, prober_.m_ + 2}

\* init(start, m, key)
PInit(start, m, key) ==
    /\ prober_' \in ProberInit(proberKind, prober_, start, m, key)
    /\ probed' = <<>>
    /\ pinit' = [start |-> start, m |-> m, key |-> key]
    /\ lastOp' = Call("init", key, 0, Ret("void", 0, 0), FALSE, FALSE, FALSE)
    /\ UNCHANGED <<table_, tableSize, mIndex_, proberKind, resizeAlpha,
                   absMap, nUpdates>>

\* next(), after an init, up to two calls past exhaustion
PNext ==
    /\ lastOp.op \in {"init", "next"}
    /\ Steppable(prober_.m_)
    /\ Len(probed) < prober_.m_ + 2
    /\ probed' = Append(probed, NextLoc(proberKind, prober_))
    /\ prober_' = NextProber(prober_)
    /\ lastOp' = Call("next", pinit.key, 0,
                      Ret("value", 0, NextLoc(proberKind, prober_)),
                      FALSE, FALSE, FALSE)
    /\ UNCHANGED <<table_, tableSize, mIndex_, proberKind, resizeAlpha,
                   absMap, nUpdates, pinit>>

NextP ==
    \/ ReInitPoint /\ \E m \in ProbeCaps : \E start \in ProbeStarts(m) :
          \E key \in ProbeKeys(proberKind, m) : key >= 0 /\ PInit(start, m, key)
    \/ PNext

SpecProber == Init /\ [][NextP]_vars

\* --------------------------------------------- MyStringHash used on its own
\* the characters offered: a, b, B, 0 and 9
HashChars == {97, 98, 66, 48, 57}

\* the strings offered: every length up to MaxStrLen, filled with a or with
\* 9, one position holding any of the characters
HashKeys ==
    {<<>>} \cup
    UNION {{[i \in 1 .. n |-> IF i = p THEN c ELSE f] :
               p \in 1 .. n, c \in HashChars, f \in {97, 57}} :
           n \in 1 .. MaxStrLen}

\* a MyStringHash with the debug coefficients, and a string k to hash
InitHash ==
    /\ proberKind = "linear"
    /\ resizeAlpha = DefaultAlpha
    /\ prober_ = NewProber(proberKind, 0)
    /\ mIndex_ = 0
    /\ tableSize = Cap(0)
    /\ table_ = <<>>
    /\ absMap = <<>>
    /\ lastOp = Call("ctor", 0, 0, Ret("void", 0, 0), FALSE, FALSE, FALSE)
    /\ nUpdates = 0
    /\ probed = <<>>
    /\ \E k \in HashKeys : pinit = [start |-> 0, m |-> 0, key |-> k]

\* operator()(k) on the string chosen
HashCall ==
    /\ lastOp.op = "ctor"
    /\ lastOp' = Call("hash", pinit.key, 0,
                      Ret("value", 0, MyStringHash(pinit.key)),
                      FALSE, FALSE, FALSE)
    /\ UNCHANGED <<table_, tableSize, mIndex_, prober_, proberKind,
                   resizeAlpha, absMap, nUpdates, probed, pinit>>

NextHash == HashCall

SpecHash == InitHash /\ [][NextHash]_vars

\* ------------------------------------------------------------------ claims
Live(t) == {i \in DOMAIN t : ~t[i].deleted}

LadderCaps == {Cap(i) : i \in 0 .. NumCapacities - 1}

\* find(key) on the table as it stands
FindNow(k) == find(proberKind, table_, mIndex_, prober_, k)

\* C1: after any sequence of insert and remove calls, find(k) returns the
\* value of the most recent insert of k when k has not been removed since,
\* and nullptr otherwise: the table agrees with the abstract map absMap.
C1_FindAgreesWithMap ==
    \A k \in Keys :
        IF k \in DOMAIN absMap
        THEN ~FindNow(k).null /\ FindNow(k).first = k
             /\ FindNow(k).second = absMap[k]
        ELSE FindNow(k).null

\* C2: a resize (called directly or by insert) keeps every live key findable
\* with its value: each key held by an Occupied slot before the call is found
\* afterwards with the value it had (the key insert is placing excepted).
C2_ResizeKeepsLiveKeys ==
    [][(lastOp'.resized /\ nUpdates' = nUpdates + 1) =>
          \A i \in Live(table_) :
              (lastOp'.op = "insert" /\ table_[i].first = lastOp'.key)
              \/ LET f == find(proberKind', table_', mIndex_', prober_',
                               table_[i].first)
                 IN  ~f.null /\ f.second = table_[i].second]_vars

\* C3: in every reachable state at most one Occupied slot holds any given key.
C3_OneLiveSlotPerKey ==
    \A i \in Live(table_) : \A j \in Live(table_) :
        table_[i].first = table_[j].first => i = j

C5_ResizeAtConfiguredAlpha ==
    [][(lastOp'.op = "insert" /\ nUpdates' = nUpdates + 1) =>
          (lastOp'.resized <=>
              100 * size(table_) >= resizeAlpha * Cap(mIndex_))]_vars

\* C6: right after a resize completes, size() / capacity is strictly below
\* the table's resize threshold.
C6_BelowThresholdAfterResize ==
    (lastOp.op = "resize" /\ lastOp.resized) =>
        100 * size(table_) < resizeAlpha * Cap(mIndex_)

\* C7: the vector's length is CAPACITIES[mIndex_], an entry of the ladder;
\* it never shrinks and changes only in a resize (called directly or by
\* insert), by exactly one ladder step.
C7_CapacityFollowsLadder ==
    /\ [](tableSize = Cap(mIndex_) /\ tableSize \in LadderCaps)
    /\ [][/\ tableSize' >= tableSize
          /\ mIndex_' # mIndex_ =>
                /\ mIndex_' = mIndex_ + 1
                /\ lastOp'.op \in {"insert", "resize"}
                /\ lastOp'.resized]_vars

\* C7 witness: an insert has resized the table from 11 to 23 slots.
C7_Witness ==
    lastOp.op = "insert" /\ lastOp.resized /\ mIndex_ = 1 /\ tableSize = 23

\* the value the i-th next() after init(start, m, key) is to return, for a
\* step of step
Expected(start, m, step, i) ==
    IF i <= m THEN (start + (i - 1) * step) % m ELSE npos

\* the first m values of probed are 0 .. m-1, each once
CoversAll(m) ==
    Len(probed) >= m =>
        /\ {probed[i] : i \in 1 .. m} = 0 .. m - 1
        /\ \A i \in 1 .. m : \A j \in 1 .. m : probed[i] = probed[j] => i = j

\* C8: after LinearProber's init(start, m, key) the i-th next() returns
\* (start + i - 1) mod m for i = 1 .. m, every index once, and npos after.
C8_LinearVisitsAllOnce ==
    (proberKind = "linear" /\ lastOp.op \in {"init", "next"}) =>
        /\ \A i \in 1 .. Len(probed) :
              probed[i] = Expected(pinit.start, pinit.m, 1, i)
        /\ CoversAll(pinit.m)

\* C8 witness: a linear prober started at index 7 of 11 has been exhausted.
C8_Witness ==
    /\ proberKind = "linear" /\ pinit.m = 11 /\ pinit.start = 7
    /\ Len(probed) = 12 /\ probed[12] = npos

RECURSIVE GCD(_, _)
GCD(a, b) == IF b = 0 THEN a ELSE GCD(b, a % b)

\* the largest entry of the modulus ladder strictly below m
LargestModulusBelow(m) ==
    LET below == {DOUBLE_HASH_MOD_VALUES[i] : i \in 1 .. DOUBLE_HASH_MOD_SIZE}
                 \cap (0 .. m - 1)
    IN  CHOOSE x \in below : \A y \in below : y <= x

\* C9: for DoubleHashProber with a capacity m of the ladder, the modulus is
\* the largest modulus-ladder entry below m, the step modulus - h2(key) mod
\* modulus lies in 1 .. modulus and is coprime to m, and the m calls of
\* next() return (start + i * step) mod m, every index once, then npos.
C9_DoubleHashVisitsAllOnce ==
    (proberKind = "double" /\ lastOp.op \in {"init", "next"}
     /\ pinit.m \in LadderCaps) =>
        LET mod == LargestModulusBelow(pinit.m)
            step == mod - (h2_(pinit.key) % mod)
        IN  /\ prober_.dhstep_ = step
            /\ step \in 1 .. mod
            /\ GCD(pinit.m, step) = 1
            /\ \A i \in 1 .. Len(probed) :
                  probed[i] = Expected(pinit.start, pinit.m, step, i)
            /\ CoversAll(pinit.m)

\* C10: at(key) and operator[](key) throw out_of_range exactly when find(key)
\* returns nullptr and otherwise return the value of the pair find returns;
\* either way the vector and the capacity are as before the call.
C10_AtFollowsFind ==
    [][lastOp'.op \in {"at", "index"} =>
          /\ table_' = table_ /\ tableSize' = tableSize /\ mIndex_' = mIndex_
          /\ LET f == find(proberKind, table_, mIndex_, prober_, lastOp'.key)
             IN  IF f.null THEN lastOp'.ret.kind = "out_of_range"
                 ELSE /\ lastOp'.ret.kind = "value"
                      /\ lastOp'.ret.second = f.second]_vars

\* C10 witness: at(key) threw for a key that a tombstoned slot still holds.
C10_Witness ==
    /\ lastOp.op = "at" /\ lastOp.ret.kind = "out_of_range"
    /\ \E i \in DOMAIN table_ : table_[i].first = lastOp.key /\ table_[i].deleted

Last30(k) == IF Len(k) <= 30 THEN k ELSE SubSeq(k, Len(k) - 29, Len(k))

\* C12: MyStringHash depends only on the last 30 characters of the key: a
\* key with the same last 30 characters as the key hashed, whatever its
\* length and its earlier characters, has the same hash.
C12_OnlyLast30Matter ==
    lastOp.op = "hash" =>
        \A k2 \in HashKeys :
            (\A i \in 0 .. 29 :
                /\ (i < Len(k2)) = (i < Len(lastOp.key))
                /\ i < Len(k2) => k2[Len(k2) - i] = lastOp.key[Len(lastOp.key) - i])
            => MyStringHash(k2) = lastOp.ret.second

\* the digit the specification gives a character: letters 0 .. 25 whatever
\* their case, decimal digits 26 .. 35
Base36Digit(c) ==
    IF c \in 48 .. 57 THEN 26 + (c - 48)
    ELSE IF c \in 65 .. 90 THEN c - 65 ELSE c - 97

\* base-36 value, most significant digit first, of characters lo .. hi of k
\* (1-based), a position before the start of k counting as digit zero
RECURSIVE ChunkValue(_, _, _)
ChunkValue(k, lo, hi) ==
    IF hi < lo THEN U64(0)
    ELSE Add64(Mul64(ChunkValue(k, lo, hi - 1), U64(36)),
               U64(IF hi >= 1 THEN Base36Digit(k[hi]) ELSE 0))

\* sum of rValues[i] * w[i], w[4] the last six characters, w[3] the six
\* before them, and so on
RECURSIVE ExpectedHash(_, _)
ExpectedHash(k, n) ==
    IF n = 0 THEN U64(0)
    ELSE Add64(ExpectedHash(k, n - 1),
               Mul64(rValues[n],
                     ChunkValue(k, Len(k) - 6 * (5 - n) - 5, Len(k) - 6 * (5 - n))))

\* C13: for an alphanumeric key MyStringHash returns the sum over i = 0 .. 4
\* of rValues[i] * w[i] modulo 2^64, w[4] being the base-36 value of the last
\* six characters, w[3] of the six before, chunks before the start of the
\* key counting as zero.
C13_WeightedBase36Chunks ==
    lastOp.op = "hash" => lastOp.ret.second = ExpectedHash(lastOp.key, 5)

\* C14: after remove(k) returns no Occupied slot holds key k, also when a
\* Tombstoned slot of another key lies earlier on k's probe sequence.
C14_RemovedKeyNotLive ==
    lastOp.op = "remove" =>
        \A i \in Live(table_) : table_[i].first # lastOp.key

\* the Occupied slots of t holding key j, each with its value
LiveSlots(t, j) == {<<i, t[i].second>> : i \in {n \in Live(t) : t[n].first = j}}

\* C15: an insert(k, v) that does not resize leaves the Occupied slots of
\* every other key, and their values, as they were; a key whose Tombstoned
\* slot the insert reuses does not become live again.
C15_InsertTouchesOnlyItsKey ==
    [][(lastOp'.op = "insert" /\ nUpdates' = nUpdates + 1
        /\ ~lastOp'.resized /\ lastOp'.ret.kind = "void") =>
          \A j \in Keys \ {lastOp'.key} :
              LiveSlots(table_', j) = LiveSlots(table_, j)]_vars

\* C16: during resize no HashItem is read after it has been released: no
\* probe made while transferring a live key inspects one that resize has
\* already deleted.
C16_NoReadAfterRelease ==
    lastOp.resized => ~lastOp.uaf

\* the number of Occupied slots of t that hold the pair pr
PairCount(t, pr) ==
    Cardinality({i \in Live(t) : <<t[i].first, t[i].second>> = pr})

\* the pairs held by the Occupied slots of t
LivePairs(t) == {<<t[i].first, t[i].second>> : i \in Live(t)}

\* C17: resize() keeps the multiset of live (key, value) pairs: every slot
\* Occupied before has a slot of its own in the new vector, so size() is as
\* before, and the new vector holds no Tombstoned slot.
C17_ResizeKeepsLiveMultiset ==
    [][(lastOp'.op = "resize" /\ lastOp'.resized /\ nUpdates' = nUpdates + 1) =>
          /\ \A pr \in LivePairs(table_) \cup LivePairs(table_') :
                PairCount(table_', pr) = PairCount(table_, pr)
          /\ size(table_') = size(table_)
          /\ \A i \in DOMAIN table_' : ~table_'[i].deleted]_vars

\* the number of distinct indices that m calls of next() return when the
\* step is step
CycleLength(m, step) == m \div GCD(m, step)

\* at least as many as the live entries a table of capacity m can hold when
\* insert probes it: insert resizes first unless size() / m < 0.4
MaxLiveAtProbe(m) == 2 * (m \div 5) + 1

\* C18: insert never fails with "No free location found": with either
\* prober, on a table of a ladder capacity m, the probe for a key reaches an
\* Empty, Tombstoned or equal-key slot within m probes, because the m probes
\* return more distinct indices than the table can hold live entries.
C18_ProbeReachesUsableSlot ==
    (lastOp.op = "init" /\ pinit.m \in LadderCaps) =>
        CycleLength(pinit.m,
                    IF proberKind = "linear" THEN 1 ELSE prober_.dhstep_)
            > MaxLiveAtProbe(pinit.m)

\* prober p after n calls of next()
RECURSIVE Stepped(_, _)
Stepped(p, n) == IF n = 0 THEN p ELSE Stepped(NextProber(p), n - 1)

\* the prober states init(start, m, key) produces on a prober never used
FreshInit(kind, start, m, key) ==
    UNION {ProberInit(kind, NewProber(kind, g), start, m, key) : g \in Garbage}

\* C19: a prober is reusable: once m probes have been issued next() returns
\* npos until the next init, and after init(start, m, key) on a used prober
\* the values of next() are those of a prober never used before, fixed by
\* (start, m, key) alone.
C19_ProberReusable ==
    lastOp.op \in {"init", "next"} =>
        /\ \A i \in 1 .. Len(probed) : i > pinit.m => probed[i] = npos
        /\ \A q \in FreshInit(proberKind, pinit.start, pinit.m, pinit.key) :
              \A i \in 1 .. Len(probed) :
                  probed[i] = NextLoc(proberKind, Stepped(q, i - 1))

\* C20: for every capacity m >= 1 given to DoubleHashProber's init, also
\* m <= 7, the modulus is read at a position of the modulus ladder and the
\* step is modulus - h2(key) mod modulus, in 1 .. modulus, for an entry
\* modulus of the ladder.
C20_ModulusFromLadder ==
    (proberKind = "double" /\ lastOp.op = "init") =>
        /\ ModulusPos(pinit.m, 0) \in 0 .. DOUBLE_HASH_MOD_SIZE - 1
        /\ \E j \in 1 .. DOUBLE_HASH_MOD_SIZE :
              /\ prober_.dhstep_ = DhStep(DOUBLE_HASH_MOD_VALUES[j], pinit.key)
              /\ prober_.dhstep_ \in 1 .. DOUBLE_HASH_MOD_VALUES[j]

====
